---- MODULE Spec2Model ----
(***************************************************************************)
(* The PDF ingestion pipeline of scraping/extract_and_classify.py:         *)
(* main enumerates the input directory and hands each document to          *)
(* process_pdf, which detects digital vs scanned, repairs or OCRs,         *)
(* classifies the recovered text and moves the artifact into a label       *)
(* directory; any exception sends a copy of the source to the error        *)
(* directory; and the text cleaner of scraping/cleaning_text.py, which     *)
(* rewrites a text file in place.  Strings are sequences of one-character  *)
(* strings.                                                                *)
(***************************************************************************)
EXTENDS Integers, Sequences, FiniteSets, TLC

VARIABLES
  inputDir,     \* input_dir: file name -> content
  errorDir,     \* error_dir argument of main: TRUE when a directory is given
  limit,        \* limit argument of main: None or a number
  repairedDir,  \* repaired_dir tree: <<subdirectory, file name>> -> content
  ocrDir,       \* ocr_dir tree: <<subdirectory, file name>> -> content
  quarantine,   \* error_dir: file name -> content
  pc,           \* position of main
  listing,      \* what the for loop of main has still to iterate
  count,        \* count of main
  reader,       \* reader of main: None or the number of the engine instance
  engines,      \* how many easyocr.Reader instances were constructed so far
  frame,        \* the running call of process_pdf, or None
  log,          \* what happened to each dispatched document, in order
  cleaner       \* the call of clean_file_in_place and the file it is given

vars == <<inputDir, errorDir, limit, repairedDir, ocrDir, quarantine, pc,
          listing, count, reader, engines, frame, log, cleaner>>

\* Python's None; an optional value is None or the one-element sequence <<v>>,
\* an optional string is None or the (non-empty) string.
None == <<>>
Some(v) == <<v>>

\* ------------------------------------------------------------------ bounds
MaxFiles == 2      \* files in the input directory
MaxPages == 1      \* pages of a document handed to the pipeline
MaxLimit == 2      \* largest processing cap tried
MaxDetectPages == 4   \* pages of a document given to the detector alone
MaxOcrPages == 2      \* pages of a document given to ocr_extract alone
MaxFragments == 2     \* fragments recognised on one such page
MaxTextLen == 4       \* characters of a text given to classify_text alone
MaxCleanLines == 3    \* lines of a file given to clean_file_in_place
MaxCleanRuns == 2     \* successive calls of clean_file_in_place on one file


\* ----------------------------------------------------------------- strings
\* Code points of the characters the model uses (ASCII).
Code(c) ==
  CASE c = "\n" -> 10 [] c = " " -> 32 [] c = "-" -> 45 [] c = "." -> 46
    [] c = "0" -> 48 [] c = "1" -> 49 [] c = "2" -> 50 [] c = "3" -> 51
    [] c = "4" -> 52 [] c = "5" -> 53 [] c = "6" -> 54 [] c = "7" -> 55
    [] c = "8" -> 56 [] c = "9" -> 57 [] c = ":" -> 58
    [] c = "D" -> 68 [] c = "F" -> 70 [] c = "P" -> 80 [] c = "_" -> 95
    [] c = "a" -> 97 [] c = "b" -> 98 [] c = "c" -> 99 [] c = "d" -> 100
    [] c = "e" -> 101 [] c = "f" -> 102 [] c = "g" -> 103 [] c = "i" -> 105
    [] c = "k" -> 107 [] c = "m" -> 109 [] c = "n" -> 110 [] c = "o" -> 111
    [] c = "p" -> 112 [] c = "r" -> 114 [] c = "s" -> 115 [] c = "t" -> 116
    [] c = "u" -> 117 [] c = "w" -> 119 [] c = "x" -> 120 [] c = "y" -> 121

\* str.lower() on the characters the model uses.
LowerChar(c) ==
  CASE c = "D" -> "d" [] c = "F" -> "f" [] c = "P" -> "p" [] OTHER -> c

Lower(s) == [i \in DOMAIN s |-> LowerChar(s[i])]

\* str.endswith(suffix)
EndsWith(s, suffix) ==
  /\ Len(s) >= Len(suffix)
  /\ SubSeq(s, Len(s) - Len(suffix) + 1, Len(s)) = suffix

\* str.startswith(prefix)
StartsWith(s, prefix) ==
  /\ Len(s) >= Len(prefix)
  /\ SubSeq(s, 1, Len(prefix)) = prefix

\* Python's whitespace, among the characters the model uses.
IsSpace(c) == c \in {" ", "\n", "\r"}

\* `not text` in place of `not text.strip()`.
IsEmptyText(s) == s = <<>>

\* not text.strip(): the text has nothing but whitespace
IsBlank(s) == \A i \in DOMAIN s : IsSpace(s[i])

\* str.replace(" ", "_")
ReplaceSpaces(s) == [i \in DOMAIN s |-> IF s[i] = " " THEN "_" ELSE s[i]]

\* os.path.splitext(name)[0]: the name up to its last dot, the whole name when
\* it has no dot or only leading dots.
SplitExtBase(s) ==
  LET dots == {i \in DOMAIN s : s[i] = "."}
      last == CHOOSE i \in dots : \A j \in dots : j <= i
  IN  IF dots = {} \/ (\A j \in 1..(last - 1) : s[j] = ".")
      THEN s
      ELSE SubSeq(s, 1, last - 1)

\* s < t as Python compares strings: by code point, a proper prefix first.
StrLess(s, t) ==
  \E i \in 1..(Len(t)) :
    /\ \A j \in 1..(i - 1) : j <= Len(s) /\ s[j] = t[j]
    /\ Len(s) >= i - 1
    /\ \/ Len(s) = i - 1
       \/ Code(s[i]) < Code(t[i])

\* sorted(names): the names in ascending order.
RECURSIVE Sorted(_)
Sorted(S) ==
  IF S = {} THEN <<>>
  ELSE LET m == CHOOSE x \in S : \A y \in S \ {x} : StrLess(x, y)
       IN  <<m>> \o Sorted(S \ {m})

\* str(n) for n >= 0
RECURSIVE Str(_)
Str(n) ==
  LET d == <<"0", "1", "2", "3", "4", "5", "6", "7", "8", "9">>
  IN  IF n < 10 THEN <<d[n + 1]>> ELSE Str(n \div 10) \o <<d[(n % 10) + 1]>>

\* ch * n
RECURSIVE Repeat(_, _)
Repeat(ch, n) == IF n <= 0 THEN <<>> ELSE <<ch>> \o Repeat(ch, n - 1)

\* sep.join(parts)
RECURSIVE Join(_, _)
Join(sep, parts) ==
  IF parts = <<>> THEN <<>>
  ELSE IF Len(parts) = 1 THEN parts[1]
  ELSE parts[1] \o sep \o Join(sep, Tail(parts))

\* ------------------------------------------------------------- the inputs
PdfSuffix == <<".", "p", "d", "f">>

\* The file names an input directory is drawn from: two documents whose names
\* differ only in the case of the extension, a third document, and a file
\* that is no document.
FileNames ==
  { <<"a", ".", "P", "D", "F">>,
    <<"a", ".", "p", "d", "f">>,
    <<"b", ".", "p", "d", "f">>,
    <<"b", ".", "t", "x", "t">> }


\* The text layer of a page, as page.get_text() returns it: none, whitespace
\* only, or real text.
NoText == <<>>
WhiteText == <<" ", "\n">>
RealText == <<"x", "\n">>
PageTexts == {NoText, WhiteText, RealText}

\* What the recognition engine reads off a page's raster: a list of fragments.
FragA == <<"a">>
FragBC == <<"b", " ", "c">>

\* A page: its text layer, and the fragments readtext returns for its raster.
Page(text, ink) == [text |-> text, ink |-> ink]

\* The pages a pipeline document is made of: a scanned page with two
\* fragments, a scanned page on which nothing is recognised, a digital page.
PipelinePages ==
  { Page(WhiteText, <<FragA, FragBC>>), Page(NoText, <<>>), Page(RealText, <<FragA>>) }

RECURSIVE SeqsUpTo(_, _)
SeqsUpTo(S, n) ==
  IF n = 0 THEN {<<>>}
  ELSE LET shorter == SeqsUpTo(S, n - 1)
       IN  shorter \cup {Append(s, x) : s \in {t \in shorter : Len(t) = n - 1}, x \in S}

\* A document: whether fitz.open succeeds on it, and its pages.
Document(id, opens, pages) ==
  [kind |-> "pdf", id |-> id, opens |-> opens, pages |-> pages]

\* What a file of the given name may hold.
ContentsOf(name) ==
  IF EndsWith(Lower(name), PdfSuffix)
  THEN {Document(name, FALSE, <<>>)}
         \cup {Document(name, TRUE, p) : p \in SeqsUpTo(PipelinePages, MaxPages)}
  ELSE {[kind |-> "other", id |-> name]}

\* The directories main may be started on.
InputDirs ==
  UNION { {d \in [S -> UNION {ContentsOf(n) : n \in S}] :
             \A n \in S : d[n] \in ContentsOf(n)} :
          S \in {T \in SUBSET FileNames : Cardinality(T) <= MaxFiles} }

Empty == [x \in {} |-> None]

\* d with key k bound to v (a file created or overwritten)
Put(d, k, v) == [x \in DOMAIN d \cup {k} |-> IF x = k THEN v ELSE d[x]]

\* d without key k (a file removed)
Drop(d, k) == [x \in DOMAIN d \ {k} |-> d[x]]

\* The directory itself, as opposed to one of its label subdirectories.
Root == <<>>

\* ------------------------------------------------------------- classifier
LABELS ==
  << <<"s", "t", "a", "t", "i", "c", " ", "d", "a", "t", "a">>,
     <<"d", "y", "n", "a", "m", "i", "c", " ", "d", "a", "t", "a">> >>

Unknown == <<"u", "n", "k", "n", "o", "w", "n">>

LabelSet == {LABELS[i] : i \in DOMAIN LABELS}

\* ---------------------------------------------------------------- detector
\* text_pages of is_digital: pages whose text is non-empty after strip()
TextPages(doc) ==
  Cardinality({i \in DOMAIN doc.pages : ~IsBlank(doc.pages[i].text)})

\* is_digital with > in place of >=.
is_digital_strict(doc) ==
  IF ~doc.opens THEN FALSE
  ELSE 2 * TextPages(doc) > Len(doc.pages)

\* is_digital with a floor division in place of the true division.
is_digital_floor(doc) ==
  IF ~doc.opens THEN FALSE
  ELSE TextPages(doc) >= Len(doc.pages) \div 2

\* is_digital without its except clause returning False: the page count of a
\* document that does not open is taken as it stands.
is_digital_unguarded(doc) == 2 * TextPages(doc) >= Len(doc.pages)

\* is_digital: text_pages >= page_count / 2 (a true division), False when the

\* document does not open.
is_digital(doc) ==
  IF ~doc.opens THEN FALSE
  ELSE 2 * TextPages(doc) >= Len(doc.pages)


\* ------------------------------------------------------------------ repair
gs_candidates ==
  << <<"g", "s", "w", "i", "n", "6", "4", "c">>,
     <<"g", "s", "w", "i", "n", "3", "2", "c">>,
     <<"g", "s">> >>

\* The probing loop of ghostscript_repair: the first candidate that answers
\* `-v`, None when none does.
FirstResolving(responding) ==
  LET hits == {i \in DOMAIN gs_candidates : gs_candidates[i] \in responding}
  IN  IF hits = {} THEN None
      ELSE gs_candidates[CHOOSE i \in hits : \A j \in hits : i <= j]

\* What Ghostscript writes for a source document: a re-serialised copy.
RepairedCopy(doc) ==
  [kind |-> "pdf", id |-> doc.id, opens |-> TRUE, pages |-> doc.pages,
   repaired |-> TRUE]

\* "\n".join(page.get_text() for page in doc)
TextOf(doc) == Join(<<"\n">>, [i \in DOMAIN doc.pages |-> doc.pages[i].text])

\* --------------------------------------------------------------------- OCR
SeparatorWidth == 80

\* The page marker written with the loop's 0-based page_num.
OcrBlockZeroBased(page_num, ocr_result) ==
  <<"P", "a", "g", "e", " ">> \o Str(page_num) \o <<":", "\n">>
    \o Join(<<" ">>, ocr_result)
    \o <<"\n">> \o Repeat("-", SeparatorWidth) \o <<"\n">>

\* A page loop that writes the fragments only, with neither the page marker
\* nor the separator line.
OcrBlockBare(page_num, ocr_result) == Join(<<" ">>, ocr_result)

\* What one iteration of the page loop of ocr_extract writes (page_num is

\* 0-based, as in the loop).
OcrBlock(page_num, ocr_result) ==
  <<"P", "a", "g", "e", " ">> \o Str(page_num + 1) \o <<":", "\n">>
    \o Join(<<" ">>, ocr_result)
    \o <<"\n">> \o Repeat("-", SeparatorWidth) \o <<"\n">>

\* The file after the first n iterations of the page loop.
RECURSIVE OcrText(_, _)
OcrText(pages, n) ==
  IF n = 0 THEN <<>>
  ELSE OcrText(pages, n - 1) \o OcrBlock(n - 1, pages[n].ink)

\* f"{base}_ocr.txt"
OcrName(pdfName) ==
  SplitExtBase(pdfName) \o <<"_", "o", "c", "r", ".", "t", "x", "t">>

TextFile(id, text) == [kind |-> "txt", id |-> id, text |-> text]


\* ----------------------------------------------------------- text cleaning
\* scraping/cleaning_text.py.  A file is the sequence of its lines, each with
\* the line ending it has on disk.
RECURSIVE LStrip(_)
LStrip(s) == IF s # <<>> /\ IsSpace(Head(s)) THEN LStrip(Tail(s)) ELSE s

RECURSIVE RStrip(_)
RStrip(s) ==
  IF s # <<>> /\ IsSpace(s[Len(s)]) THEN RStrip(SubSeq(s, 1, Len(s) - 1)) ELSE s

\* line.strip()
Strip(s) == LStrip(RStrip(s))

\* sub in s
Contains(s, sub) ==
  \E i \in 1..(Len(s) - Len(sub) + 1) : SubSeq(s, i, i + Len(sub) - 1) = sub

\* '---' in stripped_line or stripped_line.startswith('Page ')
IsHeaderLine(stripped_line) ==
  \/ Contains(stripped_line, <<"-", "-", "-">>)
  \/ StartsWith(stripped_line, <<"P", "a", "g", "e", " ">>)

\* os.linesep of the platform the script runs on.
LineSeps == { <<"\n">>, <<"\r", "\n">> }

\* A line read with newline='': the line ending is handed on as it is.
ReadLineUntranslated(raw) == raw

\* A line as the text-mode iteration of original_file yields it: universal
\* newlines, "\r\n" read as "\n".
ReadLine(raw) ==
  IF EndsWith(raw, <<"\r", "\n">>)
  THEN SubSeq(raw, 1, Len(raw) - 2) \o <<"\n">>
  ELSE raw

\* What temp_file.write(s) puts on disk: text mode writes "\n" as os.linesep.
Written(s, linesep) ==
  IF EndsWith(s, <<"\n">>) THEN SubSeq(s, 1, Len(s) - 1) \o linesep ELSE s

\* The body of the loop over original_file: what it writes to temp_file for
\* one line, and is_header_block after it.
AfterLine(line, is_header_block) ==
  LET stripped_line == Strip(line)
  IN  IF IsHeaderLine(stripped_line)
      THEN [write |-> IF ~is_header_block THEN << <<"#", "\n">> >> ELSE <<>>,
            is_header_block |-> TRUE]
      ELSE IF stripped_line # <<>>
      THEN [write |-> <<line>>, is_header_block |-> FALSE]
      ELSE [write |-> <<>>, is_header_block |-> is_header_block]

\* The lines, without their ending, that the files given to the cleaner are
\* made of: separators, page headers, blank lines, a "#", ordinary lines.
CleanBodies ==
  { <<"-", "-", "-">>,
    <<" ", "x", "-", "-", "-">>,
    <<"P", "a", "g", "e", " ", "1", ":">>,
    <<"P", "a", "g", "e", " ">>,
    <<>>,
    <<" ">>,
    <<"#">>,
    <<"x">> }

\* The file of the given lines: each ends in eol, the last one only when the
\* file ends in a line ending.
FileOf(bodies, eol, closed) ==
  [i \in DOMAIN bodies |->
     bodies[i] \o (IF i < Len(bodies) \/ closed THEN eol ELSE <<>>)]

\* The files clean_file_in_place may be given; a file has no last line that
\* is empty and without ending.
CleanFiles ==
  { f \in { FileOf(bodies, eol, closed) :
              bodies \in SeqsUpTo(CleanBodies, MaxCleanLines), eol \in LineSeps,
              closed \in BOOLEAN } :
      f = <<>> \/ f[Len(f)] # <<>> }


\* No call of clean_file_in_place is under way.
IdleCleaner ==
  [pc |-> "idle", linesep |-> <<"\n">>, content |-> <<>>, given |-> <<>>,
   original_file |-> <<>>, temp_file |-> <<>>, is_header_block |-> FALSE,
   result |-> None, error |-> "none", calls |-> 0]

\* ------------------------------------------------------------------- state

Init ==
  /\ inputDir \in InputDirs
  /\ errorDir \in BOOLEAN
  /\ limit \in {None} \cup {Some(n) : n \in 0..MaxLimit}
  /\ repairedDir = Empty
  /\ ocrDir = Empty
  /\ quarantine = Empty
  /\ pc = "start"
  /\ listing = <<>>
  /\ count = 0
  /\ reader = None
  /\ engines = 0
  /\ frame = None
  /\ log = Empty
  /\ cleaner = IdleCleaner

IsPdfName(filename) == EndsWith(Lower(filename), PdfSuffix)

\* The record kept of one call of process_pdf: the stages it went through,
\* the exception it caught, the engine it read pages with, and how often it
\* invoked the classifier model, and what became of the copy to the error
\* directory.
NewLog ==
  [stages |-> <<"Detecting">>, error |-> "none", engine |-> None, calls |-> 0,
   copy |-> "none"]

\* The locals of process_pdf on entry.
NewFrame(filename) ==
  [name |-> filename, stage |-> "Detecting", reader |-> reader, via |-> "undecided",
   artifact |-> None, text |-> <<>>, label |-> None]

\* The running call of process_pdf.
Top == frame[1]

Staged(l, stage) == [l EXCEPT !.stages = Append(@, stage)]

\* process_pdf moves on to the given stage.
Goto(stage, newFrame) ==
  /\ frame' = Some([newFrame EXCEPT !.stage = stage])
  /\ log' = [log EXCEPT ![Top.name] = Staged(@, stage)]

\* An exception of the given cause is raised inside the try block.
Raise(cause) ==
  /\ frame' = Some([Top EXCEPT !.stage = "Errored"])
  /\ log' = [log EXCEPT ![Top.name] = [Staged(@, "Errored") EXCEPT !.error = cause]]

\* process_pdf returns and main counts the document.
Return ==
  /\ frame' = None
  /\ count' = count + 1

\* -------------------------------------------------------------------- main
\* main up to the head of its loop: the reader is built once, or not at all
\* when its construction raises.
MainSetup ==
  /\ pc = "start"
  /\ \E ok \in BOOLEAN :
       /\ reader' = IF ok THEN Some(engines + 1) ELSE None
       /\ engines' = IF ok THEN engines + 1 ELSE engines
  /\ listing' = Sorted(DOMAIN inputDir)
  /\ count' = 0
  /\ pc' = "loop"
  /\ UNCHANGED <<inputDir, errorDir, limit, repairedDir, ocrDir, quarantine, frame, log>>
  /\ UNCHANGED cleaner

AtLoopHead == pc = "loop" /\ frame = None

\* if not filename.lower().endswith(".pdf"): continue
MainSkip ==
  /\ AtLoopHead /\ listing # <<>>
  /\ ~IsPdfName(Head(listing))
  /\ listing' = Tail(listing)
  /\ UNCHANGED <<inputDir, errorDir, limit, repairedDir, ocrDir, quarantine, pc,
                 count, reader, engines, frame, log>>
  /\ UNCHANGED cleaner

\* The cap compared with > in place of >=.
CapReachedLate == limit # None /\ count > limit[1]

CapReached == limit # None /\ count >= limit[1]

\* if limit is not None and count >= limit: break
MainBreak ==
  /\ AtLoopHead /\ listing # <<>>
  /\ IsPdfName(Head(listing))
  /\ CapReached
  /\ pc' = "done"
  /\ UNCHANGED <<inputDir, errorDir, limit, repairedDir, ocrDir, quarantine,
                 listing, count, reader, engines, frame, log>>
  /\ UNCHANGED cleaner

\* process_pdf(pdf_path, ...)
MainDispatch ==
  /\ AtLoopHead /\ listing # <<>>
  /\ IsPdfName(Head(listing))
  /\ ~CapReached
  /\ frame' = Some(NewFrame(Head(listing)))
  /\ log' = Put(log, Head(listing), NewLog)
  /\ listing' = Tail(listing)
  /\ UNCHANGED <<inputDir, errorDir, limit, repairedDir, ocrDir, quarantine, pc,
                 count, reader, engines>>
  /\ UNCHANGED cleaner

\* The loop runs out of file names.
MainExhausted ==
  /\ AtLoopHead /\ listing = <<>>
  /\ pc' = "done"
  /\ UNCHANGED <<inputDir, errorDir, limit, repairedDir, ocrDir, quarantine,
                 listing, count, reader, engines, frame, log>>
  /\ UNCHANGED cleaner

\* ------------------------------------------------------------- process_pdf
InStage(stage) == frame # None /\ Top.stage = stage

\* if is_digital(pdf_path): ... else: ...
Detect ==
  /\ InStage("Detecting")
  /\ IF is_digital(inputDir[Top.name])
     THEN Goto("Repairing", [Top EXCEPT !.via = "repair"])
     ELSE Goto("Extracting", [Top EXCEPT !.via = "ocr"])
  /\ UNCHANGED <<inputDir, errorDir, limit, repairedDir, ocrDir, quarantine, pc,
                 listing, count, reader, engines>>
  /\ UNCHANGED cleaner

RepairOutcomes == {"ok", "gs_fails", "gs_fails_leaving_output", "reopen_fails"}

\* ghostscript_repair and the text extraction from the repaired copy.
Repair ==
  /\ InStage("Repairing")
  /\ LET doc == inputDir[Top.name]
         out == <<Root, Top.name>>
     IN  \E responding \in SUBSET {gs_candidates[i] : i \in DOMAIN gs_candidates} :
           IF FirstResolving(responding) = None
           THEN /\ Raise("NoGhostscript")
                /\ UNCHANGED repairedDir
           ELSE \E outcome \in RepairOutcomes :
                  CASE outcome = "ok" ->
                         /\ repairedDir' = Put(repairedDir, out, RepairedCopy(doc))
                         /\ Goto("Classifying",
                                 [Top EXCEPT !.artifact = Top.name,
                                               !.text = TextOf(RepairedCopy(doc))])
                    [] outcome = "gs_fails" ->
                         /\ Raise("Repair")
                         /\ UNCHANGED repairedDir
                    [] outcome = "gs_fails_leaving_output" ->
                         /\ repairedDir' = Put(repairedDir, out, [kind |-> "partial", id |-> doc.id])
                         /\ Raise("Repair")
                    [] outcome = "reopen_fails" ->
                         /\ repairedDir' = Put(repairedDir, out, RepairedCopy(doc))
                         /\ Raise("Reopen")
  /\ UNCHANGED <<inputDir, errorDir, limit, ocrDir, quarantine, pc, listing, count,
                 reader, engines>>
  /\ UNCHANGED cleaner

\* if reader is None: reader = easyocr.Reader(["hi", "en"])
ConstructReader ==
  /\ InStage("Extracting")
  /\ Top.reader = None
  /\ \E ok \in BOOLEAN :
       IF ok
       THEN /\ frame' = Some([Top EXCEPT !.reader = Some(engines + 1)])
            /\ engines' = engines + 1
            /\ UNCHANGED log
       ELSE /\ Raise("Reader")
            /\ UNCHANGED engines
  /\ UNCHANGED <<inputDir, errorDir, limit, repairedDir, ocrDir, quarantine, pc,
                 listing, count, reader>>
  /\ UNCHANGED cleaner

\* ocr_extract and the reading back of the text file.  The page loop stops
\* after `written` pages: all of them, or fewer when a page raises.
Extract ==
  /\ InStage("Extracting")
  /\ Top.reader # None
  /\ LET doc == inputDir[Top.name]
         txt == OcrName(Top.name)
         n == Len(doc.pages)
         used == [log EXCEPT ![Top.name].engine = IF n > 0 THEN Top.reader ELSE @]
     IN  \/ /\ ~doc.opens
            /\ Raise("Extract")
            /\ UNCHANGED ocrDir
         \/ /\ doc.opens
            /\ \E written \in 0..n, reread \in BOOLEAN :
                 /\ ocrDir' = Put(ocrDir, <<Root, txt>>,
                                  TextFile(doc.id, OcrText(doc.pages, written)))
                 /\ frame' = IF written = n /\ reread
                             THEN Some([Top EXCEPT !.stage = "Classifying",
                                                   !.artifact = txt,
                                                   !.text = OcrText(doc.pages, n)])
                             ELSE Some([Top EXCEPT !.stage = "Errored"])
                 /\ log' = [used EXCEPT ![Top.name] =
                              IF written = n /\ reread
                              THEN Staged(@, "Classifying")
                              ELSE [Staged(@, "Errored") EXCEPT !.error = "Extract"]]
  /\ UNCHANGED <<inputDir, errorDir, limit, repairedDir, quarantine, pc, listing,
                 count, reader, engines>>
  /\ UNCHANGED cleaner

\* classify_text that returns nothing for blank text, so that the document
\* goes on to routing without a label.
ClassifyLeavingBlankUnlabelled ==
  /\ InStage("Classifying")
  /\ IF IsBlank(Top.text)
     THEN Goto("Routing", Top)
     ELSE \E result \in LabelSet :
            /\ frame' = Some([Top EXCEPT !.stage = "Routing", !.label = result])
            /\ log' = [log EXCEPT ![Top.name] = [Staged(@, "Routing") EXCEPT !.calls = @ + 1]]
  /\ UNCHANGED <<inputDir, errorDir, limit, repairedDir, ocrDir, quarantine, pc,
                 listing, count, reader, engines>>
  /\ UNCHANGED cleaner

\* classify_text: "unknown" for blank text, else the model's top label; the
\* model may raise.
Classify ==
  /\ InStage("Classifying")
  /\ IF IsBlank(Top.text)
     THEN Goto("Routing", [Top EXCEPT !.label = Unknown])
     ELSE \E result \in LabelSet \cup {None} :
            /\ frame' = IF result = None
                        THEN Some([Top EXCEPT !.stage = "Errored"])
                        ELSE Some([Top EXCEPT !.stage = "Routing", !.label = result])
            /\ log' = [log EXCEPT ![Top.name] =
                         [(IF result = None
                           THEN [Staged(@, "Errored") EXCEPT !.error = "Classify"]
                           ELSE Staged(@, "Routing"))
                          EXCEPT !.calls = @ + 1]]
  /\ UNCHANGED <<inputDir, errorDir, limit, repairedDir, ocrDir, quarantine, pc,
                 listing, count, reader, engines>>
  /\ UNCHANGED cleaner

\* shutil.copy in place of shutil.move: the file stays in the root as well.
MovedByCopy(tree, label, filename) ==
  Put(tree, <<ReplaceSpaces(label), filename>>, tree[<<Root, filename>>])

\* shutil.move(src, dst) inside one directory tree: the file leaves the root

\* and replaces whatever the label directory held under its name.
Moved(tree, label, filename) ==
  Put(Drop(tree, <<Root, filename>>), <<ReplaceSpaces(label), filename>>,
      tree[<<Root, filename>>])

\* os.makedirs(classified_dir) and shutil.move; process_pdf then returns.
Route ==
  /\ InStage("Routing")
  /\ \E ok \in BOOLEAN :
       IF ok
       THEN /\ IF Top.via = "repair"
               THEN /\ repairedDir' = Moved(repairedDir, Top.label, Top.artifact)
                    /\ UNCHANGED ocrDir
               ELSE /\ ocrDir' = Moved(ocrDir, Top.label, Top.artifact)
                    /\ UNCHANGED repairedDir
            /\ log' = [log EXCEPT ![Top.name] = Staged(@, "Done")]
            /\ Return
       ELSE /\ Raise("Route")
            /\ UNCHANGED <<repairedDir, ocrDir, count>>
  /\ UNCHANGED <<inputDir, errorDir, limit, quarantine, pc, listing, reader, engines>>
  /\ UNCHANGED cleaner

\* The copy left out.
QuarantinedNowhere(dir, filename, content) == dir

\* The copy filed under the name of the derived text file.
QuarantinedAsText(dir, filename, content) == Put(dir, OcrName(filename), content)

\* shutil.copy(pdf_path, os.path.join(error_dir, os.path.basename(pdf_path)))
Quarantined(dir, filename, content) == Put(dir, filename, content)

\* The except block without its inner try: a failing copy leaves process_pdf
\* and ends main before its completion message.
HandleErrorEscaping ==
  /\ InStage("Errored")
  /\ errorDir
  /\ \E copied \in BOOLEAN :
       IF copied
       THEN /\ quarantine' = Quarantined(quarantine, Top.name, inputDir[Top.name])
            /\ log' = [log EXCEPT ![Top.name].copy = "copied"]
            /\ Return
            /\ UNCHANGED pc
       ELSE /\ log' = [log EXCEPT ![Top.name].copy = "failed"]
            /\ pc' = "crashed"
            /\ frame' = None
            /\ UNCHANGED <<quarantine, count>>
  /\ UNCHANGED <<inputDir, errorDir, limit, repairedDir, ocrDir, listing, reader, engines>>
  /\ UNCHANGED cleaner

\* The except block with shutil.move in place of shutil.copy: the source
\* leaves the input directory.
HandleErrorMoving ==
  /\ InStage("Errored")
  /\ IF errorDir
     THEN \E copied \in BOOLEAN :
            /\ quarantine' = IF copied
                             THEN Quarantined(quarantine, Top.name, inputDir[Top.name])
                             ELSE quarantine
            /\ inputDir' = IF copied THEN Drop(inputDir, Top.name) ELSE inputDir
            /\ log' = [log EXCEPT ![Top.name].copy = IF copied THEN "copied" ELSE "failed"]
     ELSE /\ UNCHANGED <<quarantine, inputDir>>
          /\ log' = [log EXCEPT ![Top.name].copy = "unconfigured"]
  /\ Return
  /\ UNCHANGED <<errorDir, limit, repairedDir, ocrDir, pc, listing, reader, engines>>
  /\ UNCHANGED cleaner

\* The except block: the source is copied to the error directory when one is

\* configured; a failing copy is swallowed.  process_pdf then returns.
HandleError ==
  /\ InStage("Errored")
  /\ IF errorDir
     THEN \E copied \in BOOLEAN :
            /\ quarantine' = IF copied
                             THEN Quarantined(quarantine, Top.name, inputDir[Top.name])
                             ELSE quarantine
            /\ log' = [log EXCEPT ![Top.name].copy = IF copied THEN "copied" ELSE "failed"]
     ELSE /\ UNCHANGED quarantine
          /\ log' = [log EXCEPT ![Top.name].copy = "unconfigured"]
  /\ Return
  /\ UNCHANGED <<inputDir, errorDir, limit, repairedDir, ocrDir, pc, listing,
                 reader, engines>>
  /\ UNCHANGED cleaner

Next ==
  \/ MainSetup
  \/ MainSkip
  \/ MainBreak
  \/ MainDispatch
  \/ MainExhausted
  \/ Detect
  \/ Repair
  \/ ConstructReader
  \/ Extract
  \/ Classify
  \/ Route
  \/ HandleError

Spec == Init /\ [][Next]_vars

\* The run is one sequential thread: whatever step is next is taken (an
\* external tool that hangs is not modelled).
FairSpec == Spec /\ WF_vars(Next)


\* ------------------------------------------- the detector taken by itself
ADocument == <<"a", ".", "p", "d", "f">>

DetectDocs ==
  { Document(ADocument, opens, pages) :
      opens \in BOOLEAN,
      pages \in SeqsUpTo({Page(t, <<>>) : t \in PageTexts}, MaxDetectPages) }

\* process_pdf has just been called on a document of any make-up.
InitDetect ==
  /\ inputDir \in {Put(Empty, ADocument, doc) : doc \in DetectDocs}
  /\ errorDir = TRUE
  /\ limit = None
  /\ repairedDir = Empty
  /\ ocrDir = Empty
  /\ quarantine = Empty
  /\ pc = "loop"
  /\ listing = <<>>
  /\ count = 0
  /\ reader = Some(1)
  /\ engines = 1
  /\ frame = Some(NewFrame(ADocument))
  /\ log = Put(Empty, ADocument, NewLog)
  /\ cleaner = IdleCleaner

NextDetect == Detect

SpecDetect == InitDetect /\ [][NextDetect]_vars

\* ----------------------------------------------- ocr_extract taken by itself
OcrDocs ==
  { Document(ADocument, TRUE, pages) :
      pages \in SeqsUpTo({Page(NoText, ink) : ink \in SeqsUpTo({FragA, FragBC}, MaxFragments)},
                         MaxOcrPages) }

\* process_pdf is about to call ocr_extract on a scanned document.
InitOcr ==
  /\ inputDir \in {Put(Empty, ADocument, doc) : doc \in OcrDocs}
  /\ errorDir = TRUE
  /\ limit = None
  /\ repairedDir = Empty
  /\ ocrDir = Empty
  /\ quarantine = Empty
  /\ pc = "loop"
  /\ listing = <<>>
  /\ count = 0
  /\ reader = Some(1)
  /\ engines = 1
  /\ frame = Some([NewFrame(ADocument) EXCEPT !.stage = "Extracting", !.via = "ocr"])
  /\ log = Put(Empty, ADocument, Staged(NewLog, "Extracting"))
  /\ cleaner = IdleCleaner

NextOcr == Extract

SpecOcr == InitOcr /\ [][NextOcr]_vars

\* ocr_extract followed by classify_text, as in the else branch of process_pdf.
NextOcrClassify ==
  \/ Extract
  \/ Classify

SpecOcrClassify == InitOcr /\ [][NextOcrClassify]_vars

\* --------------------------------------------- classify_text taken by itself

ClassifyTexts == SeqsUpTo({" ", "\n", "x"}, MaxTextLen)

\* process_pdf is about to call classify_text on the text of a repaired copy
\* whose text layer reads t.
InitClassify ==
  /\ inputDir = Put(Empty, ADocument, Document(ADocument, TRUE, <<Page(RealText, <<>>)>>))
  /\ errorDir = TRUE
  /\ limit = None
  /\ ocrDir = Empty
  /\ quarantine = Empty
  /\ pc = "loop"
  /\ listing = <<>>
  /\ count = 0
  /\ reader = Some(1)
  /\ engines = 1
  /\ \E t \in ClassifyTexts :
       /\ repairedDir = Put(Empty, <<Root, ADocument>>,
                            RepairedCopy(Document(ADocument, TRUE, <<Page(t, <<>>)>>)))
       /\ frame = Some([NewFrame(ADocument) EXCEPT !.stage = "Classifying",
                                                  !.via = "repair",
                                                  !.artifact = ADocument,
                                                  !.text = t])
  /\ log = Put(Empty, ADocument, Staged(Staged(NewLog, "Repairing"), "Classifying"))
  /\ cleaner = IdleCleaner

NextClassify == Classify

SpecClassify == InitClassify /\ [][NextClassify]_vars

\* ----------------------------------------------------- clean_file_in_place
PipelineIdle ==
  /\ inputDir = Empty
  /\ errorDir = FALSE
  /\ limit = None
  /\ repairedDir = Empty
  /\ ocrDir = Empty
  /\ quarantine = Empty
  /\ pc = "start"
  /\ listing = <<>>
  /\ count = 0
  /\ reader = None
  /\ engines = 0
  /\ frame = None
  /\ log = Empty

\* clean_file_in_place(filepath) is called on a file.
InitClean ==
  /\ PipelineIdle
  /\ \E file \in CleanFiles, linesep \in LineSeps :
       cleaner = [IdleCleaner EXCEPT !.pc = "start", !.linesep = linesep,
                                     !.content = file, !.given = file, !.calls = 1]

\* The call ends in the except block: the temporary file is removed and
\* False returned.
Failing(cause) ==
  [cleaner EXCEPT !.pc = "returned", !.result = Some(FALSE), !.error = cause,
                  !.original_file = <<>>, !.temp_file = <<>>]

\* tempfile.mkstemp(), which stands before the try, then the two opens.
CleanStart ==
  /\ cleaner.pc = "start"
  /\ \E outcome \in {"ok", "mkstemp_raises", "open_fails"} :
       cleaner' =
         CASE outcome = "ok" ->
                [cleaner EXCEPT !.pc = "reading",
                                !.original_file = [i \in DOMAIN cleaner.content |->
                                                     ReadLine(cleaner.content[i])],
                                !.temp_file = <<>>,
                                !.is_header_block = FALSE]
           [] outcome = "mkstemp_raises" ->
                [cleaner EXCEPT !.pc = "raised", !.error = "mkstemp"]
           [] outcome = "open_fails" -> Failing("open")
  /\ UNCHANGED <<inputDir, errorDir, limit, repairedDir, ocrDir, quarantine, pc,
                 listing, count, reader, engines, frame, log>>

\* One iteration of the loop over original_file; reading the line or writing
\* to temp_file may raise.
CleanLine ==
  /\ cleaner.pc = "reading"
  /\ cleaner.original_file # <<>>
  /\ \E outcome \in {"ok", "read_fails", "write_fails"} :
       cleaner' =
         CASE outcome = "ok" ->
                LET after == AfterLine(Head(cleaner.original_file), cleaner.is_header_block)
                IN  [cleaner EXCEPT !.original_file = Tail(@),
                                    !.temp_file = @ \o [i \in DOMAIN after.write |->
                                                          Written(after.write[i], cleaner.linesep)],
                                    !.is_header_block = after.is_header_block]
           [] outcome = "read_fails" -> Failing("read")
           [] outcome = "write_fails" -> Failing("write")
  /\ UNCHANGED <<inputDir, errorDir, limit, repairedDir, ocrDir, quarantine, pc,
                 listing, count, reader, engines, frame, log>>

\* What shutil.move(temp_path, filepath) may do: rename or copy the temporary
\* file over the original; fail before touching it; fail while copying over
\* it (the temporary directory is usually on another filesystem, so the move
\* is a copy onto the truncated original); fail after the content is copied,
\* in copy2's copystat.
MoveOutcomes == {"ok", "refused", "broken_off", "copied_then_fails"}

\* The files are closed and shutil.move(temp_path, filepath) is called.
CleanMove ==
  /\ cleaner.pc = "reading"
  /\ cleaner.original_file = <<>>
  /\ \E outcome \in MoveOutcomes :
       CASE outcome = "ok" ->
              cleaner' = [cleaner EXCEPT !.pc = "returned", !.result = Some(TRUE),
                                         !.content = cleaner.temp_file,
                                         !.temp_file = <<>>]
         [] outcome = "refused" ->
              cleaner' = Failing("move")
         [] outcome = "broken_off" ->
              \E k \in 0..(Len(cleaner.temp_file) - 1) :
                 cleaner' = [Failing("move") EXCEPT
                               !.content = SubSeq(cleaner.temp_file, 1, k)]
         [] outcome = "copied_then_fails" ->
              cleaner' = [Failing("move") EXCEPT !.content = cleaner.temp_file]
  /\ UNCHANGED <<inputDir, errorDir, limit, repairedDir, ocrDir, quarantine, pc,
                 listing, count, reader, engines, frame, log>>

\* The cleaning is run once more over the file it has cleaned.
CleanAgain ==
  /\ cleaner.pc = "returned"
  /\ cleaner.result = Some(TRUE)
  /\ cleaner.calls < MaxCleanRuns
  /\ cleaner' = [cleaner EXCEPT !.pc = "start", !.result = None,
                                !.given = cleaner.content, !.calls = @ + 1]
  /\ UNCHANGED <<inputDir, errorDir, limit, repairedDir, ocrDir, quarantine, pc,
                 listing, count, reader, engines, frame, log>>

NextClean ==
  \/ CleanStart
  \/ CleanLine
  \/ CleanMove
  \/ CleanAgain

SpecClean == InitClean /\ [][NextClean]_vars

\* ------------------------------------------------- a second run of the batch

\* What an earlier run of main left in the output trees for a document that
\* opened: its repaired copy or its OCR text, filed under its label.
FiledBefore(prev) ==
  IF is_digital(prev)
  THEN { <<Put(Empty, <<ReplaceSpaces(l), prev.id>>, RepairedCopy(prev)), Empty>> :
           l \in IF IsBlank(TextOf(RepairedCopy(prev))) THEN {Unknown} ELSE LabelSet }
  ELSE { <<Empty, Put(Empty, <<ReplaceSpaces(l), OcrName(prev.id)>>,
                      TextFile(prev.id, OcrText(prev.pages, Len(prev.pages))))>> :
           l \in IF IsBlank(OcrText(prev.pages, Len(prev.pages))) THEN {Unknown} ELSE LabelSet }

\* main is started again on an input directory whose one document has been
\* through an earlier run, in the version it had then.
InitRerun ==
  /\ inputDir \in {Put(Empty, ADocument, doc) : doc \in ContentsOf(ADocument)}
  /\ errorDir \in BOOLEAN
  /\ limit = None
  /\ \E prev \in {doc \in ContentsOf(ADocument) : doc.opens} :
       \E trees \in FiledBefore(prev) :
          /\ repairedDir = trees[1]
          /\ ocrDir = trees[2]
  /\ cleaner = IdleCleaner

  /\ quarantine = Empty
  /\ pc = "start"
  /\ listing = <<>>
  /\ count = 0
  /\ reader = None
  /\ engines = 0
  /\ frame = None
  /\ log = Empty

NextRerun ==
  \/ MainSetup
  \/ MainDispatch
  \/ MainExhausted
  \/ Detect
  \/ Repair
  \/ ConstructReader
  \/ Extract
  \/ Classify
  \/ Route
  \/ HandleError

SpecRerun == InitRerun /\ [][NextRerun]_vars

\* ------------------------------------------------------ what the claims use

Dispatched == DOMAIN log

\* process_pdf has returned for f.
Returned(f) == f \in Dispatched /\ (frame = None \/ Top.name # f)

LastStage(f) == log[f].stages[Len(log[f].stages)]

\* The label directories of a tree hold, under the given name, a file made
\* from document f.
FiledIn(tree, filename, f) ==
  \E key \in DOMAIN tree : key[1] # Root /\ key[2] = filename /\ tree[key].id = f

\* The label directories of a tree hold a file of the given name.
NameFiledIn(tree, filename) ==
  \E key \in DOMAIN tree : key[1] # Root /\ key[2] = filename

RepairedFiled(f) == FiledIn(repairedDir, f, f)
OcrFiled(f) == FiledIn(ocrDir, OcrName(f), f)
InQuarantine(f) == f \in DOMAIN quarantine

\* How many of the three terminal conditions hold of f.
Terminals(f) ==
  (IF RepairedFiled(f) THEN 1 ELSE 0) + (IF OcrFiled(f) THEN 1 ELSE 0)
    + (IF InQuarantine(f) THEN 1 ELSE 0)

NoToolMissing == \A f \in Dispatched : log[f].error # "NoGhostscript"

\* The document main dispatched last.
LastDispatched == CHOOSE f \in Dispatched : \A g \in Dispatched \ {f} : StrLess(g, f)

Pdfs == {f \in DOMAIN inputDir : IsPdfName(f)}

\* How many documents precede f in the order of their names.
Rank(f) == Cardinality({g \in Pdfs : StrLess(g, f)})

\* The documents the cap lets through.
WithinCap == {f \in Pdfs : limit = None \/ Rank(f) < limit[1]}

StageFailures == {"Repair", "Reopen", "Extract", "Classify"}

FailedInStage(f) == Returned(f) /\ log[f].error \in StageFailures

C4_MissingToolAbortsBatch ==
  \A f \in Dispatched :
     log[f].error = "NoGhostscript" =>
        /\ log[f].copy = "none"
        /\ \A g \in Dispatched : ~StrLess(f, g)
        /\ pc # "done"

\* C5 as stated: at most one recognition engine is constructed in a run, and
\* every document whose pages were read was read with main's engine.
C5_ReaderConstructedOnce ==
  /\ engines <= 1
  /\ \A f, g \in Dispatched :
       (log[f].engine # None /\ log[g].engine # None) => log[f].engine = log[g].engine

\* The steps a document may take from one stage to the next.
StageSteps ==
  { <<"Detecting", "Repairing">>, <<"Detecting", "Extracting">>,
    <<"Repairing", "Classifying">>, <<"Extracting", "Classifying">>,
    <<"Classifying", "Routing">>, <<"Routing", "Done">> }
    \cup { <<s, "Errored">> :
             s \in {"Detecting", "Repairing", "Extracting", "Classifying", "Routing"} }

AllLabels == LabelSet \cup {Unknown}

Occurs(stage, stages) == \E i \in DOMAIN stages : stages[i] = stage

\* C6: a document goes Detecting, then Repairing or Extracting (never both),
\* then Classifying, Routing, Done, or leaves for Errored; a document in
\* Routing has exactly one label, and a file lies in a label directory only
\* after its document was classified and routed.
C6_StageOrder ==
  /\ \A f \in Dispatched :
       LET st == log[f].stages
       IN  /\ st[1] = "Detecting"
           /\ \A i \in 1..(Len(st) - 1) : <<st[i], st[i + 1]>> \in StageSteps
           /\ ~(Occurs("Repairing", st) /\ Occurs("Extracting", st))
           /\ ~Returned(f) => Top.stage = st[Len(st)]
  /\ InStage("Routing") => Top.label \in AllLabels
  /\ \A tree \in {repairedDir, ocrDir} :
       \A key \in DOMAIN tree :
          key[1] # Root =>
             /\ \E l \in AllLabels : key[1] = ReplaceSpaces(l)
             /\ \E f \in Dispatched :
                  /\ tree[key].id = f
                  /\ \E i \in DOMAIN log[f].stages :
                       /\ log[f].stages[i] = "Classifying"
                       /\ i < Len(log[f].stages)
                       /\ log[f].stages[i + 1] = "Routing"

\* C6 witness: two documents went through all stages, one by each path, and
\* their artifacts lie in label directories.
C6_Witness ==
  \E f, g \in Dispatched :
     /\ log[f].stages = <<"Detecting", "Repairing", "Classifying", "Routing", "Done">>
     /\ log[g].stages = <<"Detecting", "Extracting", "Classifying", "Routing", "Done">>
     /\ RepairedFiled(f) /\ OcrFiled(g)

Min(a, b) == IF a < b THEN a ELSE b

\* Nothing was made from document f.
Untouched(f) ==
  /\ f \notin Dispatched
  /\ f \notin DOMAIN quarantine
  /\ \A tree \in {repairedDir, ocrDir} : \A key \in DOMAIN tree : tree[key].id # f

\* C7: main dispatches no document beyond the first min(N, M) in the order of
\* their names, and when it is done it has dispatched exactly those, failed
\* or not, and left the others untouched; without a cap, all M.
C7_ProcessingCap ==
  /\ Dispatched \subseteq WithinCap
  /\ pc = "done" =>
       /\ Dispatched = WithinCap
       /\ \A f \in WithinCap : Returned(f)
       /\ count = Cardinality(Dispatched)
       /\ count = IF limit = None THEN Cardinality(Pdfs)
                  ELSE Min(limit[1], Cardinality(Pdfs))
       /\ \A f \in Pdfs \ WithinCap : Untouched(f)

\* C7 witness: with a cap of one and two documents, the run is done, the
\* first document failed and counted, the second was left alone.
C7_Witness ==
  /\ pc = "done"
  /\ limit = Some(1)
  /\ Cardinality(Pdfs) = 2
  /\ \E f \in Dispatched : LastStage(f) = "Errored"
  /\ \E g \in Pdfs : Untouched(g)


\* The text layer of a page has a character that is not whitespace.
HasText(page) == \E i \in DOMAIN page.text : page.text[i] \notin {" ", "\n"}

PagesWithText(doc) == {i \in 1..Len(doc.pages) : HasText(doc.pages[i])}
PagesWithoutText(doc) == {i \in 1..Len(doc.pages) : ~HasText(doc.pages[i])}

\* The document process_pdf is working on.
Current == inputDir[Top.name]

Detected == frame # None /\ Top.stage \in {"Repairing", "Extracting"}

\* C8: is_digital is true exactly when the document opens and the pages with
\* text are at least half of all pages (at least as many as the pages
\* without), false otherwise, and it changes no file.
C8_DigitalIffHalfText ==
  /\ [](Detected =>
          (Top.stage = "Repairing" <=>
             /\ Current.opens
             /\ Cardinality(PagesWithText(Current)) >= Cardinality(PagesWithoutText(Current))))
  /\ [][Detect => UNCHANGED <<inputDir, repairedDir, ocrDir, quarantine>>]_vars

\* C8 witness: a four-page document with exactly two text pages was detected
\* as digital.
C8_Witness ==
  /\ Detected /\ Top.stage = "Repairing"
  /\ Len(Current.pages) = 4
  /\ Cardinality(PagesWithText(Current)) = 2

\* C9 as stated: whatever the page count, zero included, a document (that
\* opens) whose pages all have text is digital and one with no text page is
\* not.
C9_Extremes ==
  (Detected /\ Current.opens) =>
     /\ PagesWithoutText(Current) = {} => Top.stage = "Repairing"
     /\ PagesWithText(Current) = {} => Top.stage = "Extracting"

\* C9 amended: for every page count of at least one, a document that opens
\* and whose pages all have text is digital, and one with no text page is
\* not; a document that opens with zero pages is digital.
C9_ExtremesWithPages ==
  (Detected /\ Current.opens) =>
     /\ (Len(Current.pages) >= 1 /\ PagesWithoutText(Current) = {}) => Top.stage = "Repairing"
     /\ (Len(Current.pages) >= 1 /\ PagesWithText(Current) = {}) => Top.stage = "Extracting"
     /\ Len(Current.pages) = 0 => Top.stage = "Repairing"

\* C9 witness: a three-page document without any text was detected as
\* scanned.
C9_Witness ==
  /\ Detected /\ Current.opens
  /\ Len(Current.pages) = 3 /\ PagesWithText(Current) = {}
  /\ Top.stage = "Extracting"

\* The lines of a text, each without its newline.
RECURSIVE SplitLines(_)
SplitLines(t) ==
  IF t = <<>> THEN <<>>
  ELSE LET ends == {i \in DOMAIN t : t[i] = "\n"}
           nl == IF ends = {} THEN Len(t) + 1
                 ELSE CHOOSE i \in ends : \A j \in ends : i <= j
       IN  <<SubSeq(t, 1, nl - 1)>> \o SplitLines(SubSeq(t, nl + 1, Len(t)))

DigitValue(c) == Code(c) - Code("0")

\* The number a string of decimal digits stands for, -1 when it is none.
RECURSIVE ParseNat(_)
ParseNat(ds) ==
  IF ds = <<>> \/ \E i \in DOMAIN ds : DigitValue(ds[i]) \notin 0..9 THEN -1
  ELSE IF Len(ds) = 1 THEN DigitValue(ds[1])
  ELSE 10 * ParseNat(SubSeq(ds, 1, Len(ds) - 1)) + DigitValue(ds[Len(ds)])

\* line is `Page k:`
IsMarker(line, k) ==
  /\ Len(line) >= 7
  /\ SubSeq(line, 1, 5) = <<"P", "a", "g", "e", " ">>
  /\ line[Len(line)] = ":"
  /\ ParseNat(SubSeq(line, 6, Len(line) - 1)) = k

RECURSIVE SumLen(_, _)
SumLen(parts, n) == IF n = 0 THEN 0 ELSE SumLen(parts, n - 1) + Len(parts[n])

\* line is the fragments in their order, one space between neighbours.
IsSpaceJoined(line, parts) ==
  /\ Len(line) = SumLen(parts, Len(parts)) + (IF Len(parts) = 0 THEN 0 ELSE Len(parts) - 1)
  /\ \A j \in DOMAIN parts :
       LET start == SumLen(parts, j - 1) + (j - 1)
       IN  /\ SubSeq(line, start + 1, start + Len(parts[j])) = parts[j]
           /\ j > 1 => line[start] = " "

IsSeparator(line) == Len(line) = 80 /\ \A i \in DOMAIN line : line[i] = "-"

Extracted == frame # None /\ Top.stage = "Classifying" /\ Top.via = "ocr"

\* C10: when ocr_extract completes on a document of n pages, the OCR
\* directory holds {base}_ocr.txt, made of 3n lines: for k = 1..n in this
\* order the marker `Page k:`, the fragments of page k joined by single
\* spaces, and a line of 80 dashes; the same text is what process_pdf reads
\* back.
C10_OcrTextFormat ==
  Extracted =>
     LET name == Top.name
         txt == SubSeq(name, 1, Len(name) - 4) \o <<"_", "o", "c", "r", ".", "t", "x", "t">>
         n == Len(Current.pages)
     IN  /\ Top.artifact = txt
         /\ <<Root, txt>> \in DOMAIN ocrDir
         /\ LET text == ocrDir[<<Root, txt>>].text
                lines == SplitLines(text)
            IN  /\ Top.text = text
                /\ text = <<>> \/ text[Len(text)] = "\n"
                /\ Len(lines) = 3 * n
                /\ \A k \in 1..n :
                     /\ IsMarker(lines[3 * k - 2], k)
                     /\ IsSpaceJoined(lines[3 * k - 1], Current.pages[k].ink)
                     /\ IsSeparator(lines[3 * k])

\* C10 witness: ocr_extract completed on a two-page document whose first page
\* has two fragments.
C10_Witness ==
  /\ Extracted
  /\ Len(Current.pages) = 2
  /\ Len(Current.pages[1].ink) = 2
  /\ Current.pages[1].ink[1] # Current.pages[1].ink[2]


StaticData == <<"s", "t", "a", "t", "i", "c", " ", "d", "a", "t", "a">>
DynamicData == <<"d", "y", "n", "a", "m", "i", "c", " ", "d", "a", "t", "a">>

\* The characters of a text that are not whitespace.
InkOf(text) == {i \in 1..Len(text) : text[i] # " " /\ text[i] # "\n"}

Classified == frame # None /\ Top.stage \in {"Routing", "Errored"}

\* C11: on empty or whitespace-only text classify_text returns "unknown" and
\* does not invoke the model; on any other text it invokes the model exactly
\* once and what it returns is "static data" or "dynamic data".
C11_ClassifyText ==
  Classified =>
     /\ InkOf(Top.text) = {} =>
          /\ Top.stage = "Routing"
          /\ Top.label = <<"u", "n", "k", "n", "o", "w", "n">>
          /\ log[Top.name].calls = 0
     /\ InkOf(Top.text) # {} =>
          /\ log[Top.name].calls = 1
          /\ Top.stage = "Routing" => Top.label \in {StaticData, DynamicData}
          /\ Top.stage = "Errored" => log[Top.name].error = "Classify"

\* C11 witness: a text of whitespace only was labelled "unknown".
C11_Witness ==
  /\ Classified
  /\ Len(Top.text) = 2 /\ InkOf(Top.text) = {}
  /\ Top.label = Unknown

\* The directory named after a label, spelled out.
DirOf(label) ==
  CASE label = StaticData -> <<"s", "t", "a", "t", "i", "c", "_", "d", "a", "t", "a">>
    [] label = DynamicData -> <<"d", "y", "n", "a", "m", "i", "c", "_", "d", "a", "t", "a">>
    [] OTHER -> <<"u", "n", "k", "n", "o", "w", "n">>

\* The step in which process_pdf returns from a successful shutil.move.
RouteReturns == InStage("Routing") /\ frame' = None

\* C12: routing relocates the artifact: once process_pdf has routed it, the
\* artifact is at {output root}/{label with spaces as underscores}/{filename},
\* with the content it had, and no longer at its intermediate path.
C12_RoutedByMove ==
  [][RouteReturns =>
       LET intermediate == <<Root, Top.artifact>>
           destination == <<DirOf(Top.label), Top.artifact>>
       IN  IF Top.via = "repair"
           THEN /\ destination \in DOMAIN repairedDir'
                /\ repairedDir'[destination] = repairedDir[intermediate]
                /\ intermediate \notin DOMAIN repairedDir'
           ELSE /\ destination \in DOMAIN ocrDir'
                /\ ocrDir'[destination] = ocrDir[intermediate]
                /\ intermediate \notin DOMAIN ocrDir']_vars

\* C12 witness: a repaired copy labelled "static data" has been routed and is
\* in static_data, not in the root of the repaired directory.
C12_Witness ==
  \E f \in Dispatched :
     /\ LastStage(f) = "Done"
     /\ <<DirOf(StaticData), f>> \in DOMAIN repairedDir
     /\ <<Root, f>> \notin DOMAIN repairedDir

\* process_pdf has produced the artifact of f.
Made(f) == Occurs("Classifying", log[f].stages)

\* The directory tree and the filename of the artifact process_pdf makes for f.
ArtifactPath(f) ==
  IF log[f].stages[2] = "Repairing" THEN <<"repaired", f>> ELSE <<"ocr", OcrName(f)>>

\* C13: two distinct input documents never get the same artifact filename in
\* the same output tree, whatever names the case-insensitive ".pdf"
\* enumeration accepts.
C13_DistinctArtifactNames ==
  \A f, g \in Dispatched :
     (f # g /\ Made(f) /\ Made(g)) => ArtifactPath(f) # ArtifactPath(g)

\* The files of the label directories of a tree are still there, with the
\* content they had.
LabelledFilesKept(tree, treeAfter) ==
  \A key \in DOMAIN tree :
     key[1] # Root => key \in DOMAIN treeAfter /\ treeAfter[key] = tree[key]

\* C14: routing an artifact onto a destination path that already holds a file
\* of that name (left by an earlier run) never replaces that file: the files
\* of the label directories keep their content in every step.
C14_NoSilentOverwrite ==
  [][LabelledFilesKept(repairedDir, repairedDir') /\ LabelledFilesKept(ocrDir, ocrDir')]_vars

\* C15: the pipeline only reads its source documents: no step of a run adds,
\* removes or changes a file of the input directory (the output and error
\* directories being other directories than the input directory).
C15_SourcesUntouched == [][inputDir' = inputDir]_vars

\* C15 witness: a run has ended in which one document was repaired and routed
\* and another failed and was copied to the error directory, and that one is
\* still in the input directory with the content the copy has.
C15_Witness ==
  /\ pc = "done"
  /\ \E f, g \in Dispatched :
       /\ f # g
       /\ LastStage(g) = "Done" /\ RepairedFiled(g)
       /\ LastStage(f) = "Errored" /\ InQuarantine(f)
       /\ f \in DOMAIN inputDir /\ quarantine[f] = inputDir[f]

\* The dispatched documents fitz.open fails on.
Unopenable == {f \in Dispatched : ~inputDir[f].opens}

\* C16: a document that cannot be opened during detection is not fatal: it is
\* taken as not digital and sent down the extraction path (never to repair),
\* where the extraction attempt fails inside process_pdf, and the batch goes
\* on to the remaining documents and completes.
C16_UnopenableNotFatal ==
  /\ pc \in {"start", "loop", "done"}
  /\ \A f \in Unopenable :
       /\ Len(log[f].stages) >= 2 => log[f].stages[2] = "Extracting"
       /\ ~Occurs("Repairing", log[f].stages)
       /\ log[f].error \in {"none", "Reader", "Extract"}
       /\ Returned(f) => log[f].stages = <<"Detecting", "Extracting", "Errored">>
  /\ (pc = "done" /\ Unopenable # {}) => \A g \in WithinCap : Returned(g)

\* C16 witness: a document that does not open went to extraction and failed
\* there, and the document after it was processed and routed.
C16_Witness ==
  \E f \in Unopenable, g \in Dispatched :
     /\ StrLess(f, g)
     /\ log[f].stages = <<"Detecting", "Extracting", "Errored">>
     /\ log[f].error = "Extract"
     /\ LastStage(g) = "Done"

\* The pages of the document process_pdf is working on.
PagesOfTop == inputDir[Top.name].pages

\* C18: on the extraction path the text given to the classifier holds the
\* page markers and separators, so for a document of at least one page it is
\* never blank, even when nothing was recognised on any page: the model is
\* invoked and the label is one of LABELS; "unknown" is assigned only to a
\* document of zero pages.
C18_OcrTextNeverBlank ==
  (frame # None /\ Top.via = "ocr") =>
     /\ (Top.stage \in {"Classifying", "Routing"} /\ Len(PagesOfTop) >= 1) =>
          InkOf(Top.text) # {}
     /\ (Top.stage = "Routing" /\ Len(PagesOfTop) >= 1) =>
          /\ log[Top.name].calls = 1
          /\ Top.label \in {StaticData, DynamicData}
     /\ (Top.stage = "Routing" /\ Top.label = Unknown) =>
          Len(PagesOfTop) = 0 /\ log[Top.name].calls = 0
     /\ (Top.stage = "Errored" /\ log[Top.name].error = "Classify") =>
          Len(PagesOfTop) >= 1 /\ log[Top.name].calls = 1

\* C18 witness: a document of two pages on which nothing was recognised has
\* been given one of the two labels.
C18_Witness ==
  /\ InStage("Routing") /\ Top.via = "ocr"
  /\ Len(PagesOfTop) = 2
  /\ \A i \in DOMAIN PagesOfTop : PagesOfTop[i].ink = <<>>
  /\ Top.label \in LabelSet

\* How many characters of a line on disk are its line ending.
EndingLen(raw) ==
  IF Len(raw) >= 2 /\ raw[Len(raw) - 1] = "\r" /\ raw[Len(raw)] = "\n" THEN 2
  ELSE IF Len(raw) >= 1 /\ raw[Len(raw)] = "\n" THEN 1
  ELSE 0

BodyOf(raw) == SubSeq(raw, 1, Len(raw) - EndingLen(raw))

IsBlankLine(raw) == \A i \in DOMAIN BodyOf(raw) : BodyOf(raw)[i] = " "

\* A section break: the line has three dashes in a row, or its first
\* characters after leading blanks are "Page " with something after them.
IsBreakLine(raw) ==
  LET b == BodyOf(raw)
  IN  \/ \E i \in 1..(Len(b) - 2) : b[i] = "-" /\ b[i + 1] = "-" /\ b[i + 2] = "-"
      \/ \E i \in DOMAIN b :
            /\ \A j \in 1..(i - 1) : b[j] = " "
            /\ Len(b) >= i + 5
            /\ b[i] = "P" /\ b[i + 1] = "a" /\ b[i + 2] = "g" /\ b[i + 3] = "e"
            /\ b[i + 4] = " "
            /\ \E k \in (i + 5)..Len(b) : b[k] # " "

\* The lines that stay: the lines that are not blank, and of the section
\* breaks among them only the one that begins a run (blank lines do not end
\* a run).
Stays(lines, i) ==
  /\ ~IsBlankLine(lines[i])
  /\ IsBreakLine(lines[i]) =>
       \A j \in 1..(i - 1) :
          IsBreakLine(lines[j]) =>
             \E k \in (j + 1)..(i - 1) : ~IsBlankLine(lines[k]) /\ ~IsBreakLine(lines[k])

\* The numbers of the first n lines that stay, in their order.
RECURSIVE Picked(_, _)
Picked(lines, n) ==
  IF n = 0 THEN <<>>
  ELSE Picked(lines, n - 1) \o (IF Stays(lines, n) THEN <<n>> ELSE <<>>)

\* out is the file the claim describes for lines: one "#" line for each run
\* of section breaks, every other line that is not blank unchanged.
CleanedAsStated(lines, out) ==
  LET picked == Picked(lines, Len(lines))
  IN  /\ Len(out) = Len(picked)
      /\ \A j \in DOMAIN picked :
            IF IsBreakLine(lines[picked[j]])
            THEN BodyOf(out[j]) = <<"#">> /\ EndingLen(out[j]) > 0
            ELSE out[j] = lines[picked[j]]

\* The same with the line endings as text mode writes them: every line
\* ending becomes linesep.
CleanedWithLinesep(lines, linesep) ==
  LET picked == Picked(lines, Len(lines))
  IN  [j \in DOMAIN picked |->
         IF IsBreakLine(lines[picked[j]])
         THEN <<"#">> \o linesep
         ELSE BodyOf(lines[picked[j]])
                \o (IF EndingLen(lines[picked[j]]) > 0 THEN linesep ELSE <<>>)]

CleanEnded == cleaner.pc \in {"returned", "raised"}

\* C17 as stated: clean_file_in_place replaces each run of section-break
\* lines (blank lines between them included) by one "#" line, drops blank
\* lines and keeps every other line unchanged and in order, returning True;
\* on any error it returns False and the file has the content it had.
C17_CleanedOrUnchanged ==
  CleanEnded =>
     IF cleaner.error = "none"
     THEN cleaner.result = Some(TRUE) /\ CleanedAsStated(cleaner.given, cleaner.content)
     ELSE cleaner.result = Some(FALSE) /\ cleaner.content = cleaner.given

\* What a call of clean_file_in_place ends in, case by case: when nothing
\* fails it returns True and the
\* file holds one "#" line for each run of section breaks (blank lines
\* between them included), no blank line, and every other line in its order,
\* each line ending rewritten as the platform's line separator.  When opening
\* or reading the original or writing the temporary file fails it returns
\* False and the file has the content it had.  When tempfile.mkstemp fails
\* the exception leaves the function (nothing is returned) and the file has
\* the content it had.  When the final move fails it returns False and the
\* file has the content it had, or the cleaned content, or the first lines of
\* the cleaned content.
CleanOutcomes ==
  CleanEnded =>
     LET cleaned == CleanedWithLinesep(cleaner.given, cleaner.linesep)
     IN  CASE cleaner.error = "none" ->
                /\ cleaner.pc = "returned" /\ cleaner.result = Some(TRUE)
                /\ cleaner.content = cleaned
           [] cleaner.error \in {"open", "read", "write"} ->
                /\ cleaner.pc = "returned" /\ cleaner.result = Some(FALSE)
                /\ cleaner.content = cleaner.given
           [] cleaner.error = "mkstemp" ->
                /\ cleaner.pc = "raised" /\ cleaner.result = None
                /\ cleaner.content = cleaner.given
           [] cleaner.error = "move" ->
                /\ cleaner.pc = "returned" /\ cleaner.result = Some(FALSE)
                /\ \/ cleaner.content = cleaner.given
                   \/ \E k \in 0..Len(cleaned) : cleaner.content = SubSeq(cleaned, 1, k)
           [] OTHER -> FALSE

\* C19: clean_file_in_place is idempotent: run on a file it has cleaned, it
\* leaves the file as it is.
C19_Idempotent ==
  (cleaner.pc = "returned" /\ cleaner.result = Some(TRUE) /\ cleaner.calls >= 2) =>
     cleaner.content = cleaner.given

\* C19 witness: the second run over a cleaned file of a "#" line and an
\* ordinary line has returned True.
C19_Witness ==
  /\ cleaner.pc = "returned" /\ cleaner.result = Some(TRUE) /\ cleaner.calls = 2
  /\ \E i, j \in DOMAIN cleaner.content :
        /\ i < j
        /\ BodyOf(cleaner.content[i]) = <<"#">>
        /\ BodyOf(cleaner.content[j]) = <<"x">>

====
